---- MODULE Spec2Model ----
(***************************************************************************)
(* Model of the Outlook MCP server (server.py): the short-id cache         *)
(* (_id_cache, _hash_id, _assign_short_id, _resolve_id), run by one caller *)
(* and by two callers at once, the filter builder (_build_dasl_filter) and *)
(* the tools that use them (search_emails, search_calendar, read_item).    *)
(*                                                                         *)
(* Strings are TLA+ strings; the OrderedDict is a sequence of records      *)
(* [k |-> short id, v |-> entry id], oldest first.                         *)
(***************************************************************************)
EXTENDS Integers, Sequences, FiniteSets, TLC

VARIABLES cache, lru, assigned, op, thread, before

vars == <<cache, lru, assigned, op, thread, before>>

(***************************************************************************)
(* Bounds.  The capacity is 500 and the suffix range is range(1, 100) in   *)
(* the source; both are scaled so that eviction and suffix probing happen  *)
(* within a few calls.                                                     *)
(***************************************************************************)
MAX_CACHE_SIZE == 3

SUFFIX_END == 3

(***************************************************************************)
(* Native references.  EMPTY is the entry id a search passes for a row     *)
(* without EntryID (row("EntryID") or "").  EidA, EidB, EidC and UrlLong   *)
(* have the same _hash_id as EMPTY ("el4c"); Eid1 and Eid2 have two other *)
(* hashes ("4000" and "mb2a").                                             *)
(***************************************************************************)
EMPTY == ""

EidA == "EID05A91E4"

EidB == "EID05AD8DF"

EidC == "EID06B5F82"

Eid1 == "EID0000001"

Eid2 == "EID0000002"

UrlLong == "https://example.com/xxxxxxxxxxxxxxxxxxxxxxxxxxxxxxxxxxxxxxxxxxxxxxxxxxxxxxxxxxxxxxxxxxxxxx0899485"

UrlShort == "https://example.com/short"

\* URLs of exactly 80 and 81 characters
Url80 == "https://example.com/yyyyyyyyyyyyyyyyyyyyyyyyyyyyyyyyyyyyyyyyyyyyyyyyyyyyyyyyyyyy"

Url81 == "https://example.com/yyyyyyyyyyyyyyyyyyyyyyyyyyyyyyyyyyyyyyyyyyyyyyyyyyyyyyyyyyyyy"

Eid3 == "EID0000003"

Eid4 == "EID0000004"

\* one more reference with the hash "el4c"
EidD == "EID06E247D"

EntryIds == {EMPTY, EidA, EidB, EidC, Eid1, Eid2}

Refs == EntryIds \cup {Eid3, Eid4, EidD, UrlLong, UrlShort, Url80, Url81}

(***************************************************************************)
(* _hash_id                                                                *)
(***************************************************************************)
\* sha256(entry_id.encode()).digest()[:4] for the strings of the model:
\* the four bytes sha256 gives for them, most significant first
Digest4(entry_id) ==
    CASE entry_id = EMPTY    -> <<227, 176, 196, 66>>
      [] entry_id = EidA     -> <<102, 243, 38, 66>>
      [] entry_id = EidB     -> <<11, 63, 18, 66>>
      [] entry_id = EidC     -> <<157, 130, 231, 66>>
      [] entry_id = Eid1     -> <<28, 8, 24, 4>>
      [] entry_id = Eid2     -> <<249, 232, 234, 66>>
      [] entry_id = UrlLong  -> <<34, 69, 184, 66>>
      [] entry_id = UrlShort -> <<2, 87, 48, 147>>
      [] entry_id = Url80    -> <<135, 30, 101, 180>>
      [] entry_id = Url81    -> <<58, 8, 241, 9>>
      [] entry_id = Eid3     -> <<193, 196, 48, 111>>
      [] entry_id = Eid4     -> <<170, 180, 24, 69>>
      [] entry_id = EidD     -> <<118, 17, 29, 66>>

Base36Chars ==
    << "0", "1", "2", "3", "4", "5", "6", "7", "8", "9", "a", "b",
       "c", "d", "e", "f", "g", "h", "i", "j", "k", "l", "m", "n",
       "o", "p", "q", "r", "s", "t", "u", "v", "w", "x", "y", "z" >>

\* int.from_bytes(bytes, 'big') is wider than the integers of the model
\* checker, so num stays a sequence of bytes and divmod(num, 36) is long
\* division: DivMod36 gives <<quotient bytes, remainder>>
RECURSIVE DivMod36(_, _, _)
DivMod36(bytes, quot, rem) ==
    IF bytes = <<>> THEN <<quot, rem>>
    ELSE LET cur == rem * 256 + Head(bytes)
         IN  DivMod36(Tail(bytes), Append(quot, cur \div 36), cur % 36)

\* the loop 'for _ in range(4): num, rem = divmod(num, 36)'
RECURSIVE Base36Loop(_, _)
Base36Loop(num, n) ==
    IF n = 0 THEN ""
    ELSE LET qr == DivMod36(num, <<>>, 0)
         IN  Base36Chars[qr[2] + 1] \o Base36Loop(qr[1], n - 1)

_hash_id(entry_id) == Base36Loop(Digest4(entry_id), 4)

(***************************************************************************)
(* Sequencing: Op applied to the value of x, so that a statement's result  *)
(* is computed once before the statements after it use it                  *)
(***************************************************************************)
Bind(x, Op(_)) == CHOOSE y \in {Op(v) : v \in {x}} : TRUE

(***************************************************************************)
(* OrderedDict operations                                                  *)
(***************************************************************************)
Keys(c) == {c[i].k : i \in DOMAIN c}

\* 'key in d'
Has(c, key) == key \in Keys(c)

\* d[key] for a key that is present
Get(c, key) == c[CHOOSE i \in DOMAIN c : c[i].k = key].v

\* truthiness of d.get(key): present and not the empty string
Truthy(c, key) == Has(c, key) /\ Get(c, key) # ""

RECURSIVE Without(_, _)
Without(c, key) ==
    IF c = <<>> THEN <<>>
    ELSE IF Head(c).k = key THEN Without(Tail(c), key)
    ELSE <<Head(c)>> \o Without(Tail(c), key)

\* variant: d.setdefault(key, value), a present key keeps its value
SetItem_setdefault(c, key, value) ==
    IF Has(c, key) THEN c ELSE Append(c, [k |-> key, v |-> value])

\* d[key] = value: a present key keeps its position, a new key goes last
SetItem(c, key, value) ==
    IF Has(c, key)
    THEN [i \in DOMAIN c |-> IF c[i].k = key THEN [k |-> key, v |-> value] ELSE c[i]]
    ELSE Append(c, [k |-> key, v |-> value])

\* d.move_to_end(key)
MoveToEnd(c, key) == Without(c, key) \o <<[k |-> key, v |-> Get(c, key)]>>

\* n times d.popitem(last=False)
RECURSIVE PopFirst(_, _)
PopFirst(c, n) == IF n = 0 \/ c = <<>> THEN c ELSE PopFirst(Tail(c), n - 1)

(***************************************************************************)
(* _assign_short_id                                                        *)
(***************************************************************************)
\* the loop 'for suffix in range(1, 100)': the first candidate that is
\* falsy in the cache or holds entry_id; the base hash when none is
RECURSIVE ProbeSuffix(_, _, _, _)
ProbeSuffix(c, short, entry_id, suffix) ==
    IF suffix >= SUFFIX_END THEN short
    ELSE LET candidate == short \o ToString(suffix)
         IN  IF ~Truthy(c, candidate) \/ Get(c, candidate) = entry_id
             THEN candidate
             ELSE ProbeSuffix(c, short, entry_id, suffix + 1)

\* lines 187-196: the short id chosen for entry_id
ChooseShort(c, entry_id) ==
    LET short == _hash_id(entry_id)
    IN  IF Truthy(c, short) /\ Get(c, short) # entry_id
        THEN ProbeSuffix(c, short, entry_id, 1)
        ELSE short

\* lines 198-200: whether the insert evicts, and the cache after eviction
Evicts(c, short) == ~Has(c, short) /\ Len(c) >= MAX_CACHE_SIZE

AfterEvict(c, short) ==
    IF Evicts(c, short) THEN PopFirst(c, Len(c) \div 2) ELSE c

\* the cache after _assign_short_id(entry_id)
AssignCache(c, entry_id) ==
    LET short == ChooseShort(c, entry_id)
    IN  MoveToEnd(SetItem(AfterEvict(c, short), short, entry_id), short)

\* the value _assign_short_id(entry_id) returns
AssignRet(c, entry_id) == ChooseShort(c, entry_id)

(***************************************************************************)
(* _resolve_id                                                             *)
(***************************************************************************)
\* variant: 'if real_id:' instead of 'if real_id is not None:'
ResolveHit_truthy(c, id_str) == Truthy(c, id_str)

\* 'real_id is not None'
ResolveHit(c, id_str) == Has(c, id_str)

\* variant: a hit that does not move the entry to the end
ResolveCache_nomove(c, id_str) == c

ResolveCache(c, id_str) ==
    IF ResolveHit(c, id_str) THEN MoveToEnd(c, id_str) ELSE c

\* variant: a miss returns the empty string
ResolveRet_blank(c, id_str) ==
    IF ResolveHit(c, id_str) THEN Get(c, id_str) ELSE ""

ResolveRet(c, id_str) ==
    IF ResolveHit(c, id_str) THEN Get(c, id_str) ELSE id_str

(***************************************************************************)
(* History kept beside the program state                                   *)
(*   lru       the cached short ids in the order of their last use         *)
(*             (a use is an _assign_short_id returning the id or a         *)
(*             _resolve_id finding it), least recent first                 *)
(*   assigned  for each reference, the short id it was last assigned,      *)
(*             while that short id is a key of the cache                   *)
(*   op        the last call: its name, argument, return value and the     *)
(*             short ids it evicted                                        *)
(***************************************************************************)
RECURSIVE SeqWithout(_, _)
SeqWithout(s, x) ==
    IF s = <<>> THEN <<>>
    ELSE IF Head(s) = x THEN SeqWithout(Tail(s), x)
    ELSE <<Head(s)>> \o SeqWithout(Tail(s), x)

RECURSIVE SeqKeep(_, _)
SeqKeep(s, S) ==
    IF s = <<>> THEN <<>>
    ELSE IF Head(s) \in S THEN <<Head(s)>> \o SeqKeep(Tail(s), S)
    ELSE SeqKeep(Tail(s), S)

Touch(l, t, live) == SeqKeep(SeqWithout(l, t) \o <<t>>, live)

Remember(a, r, t, live) ==
    [x \in DOMAIN a |->
        IF x = r THEN <<t>>
        ELSE IF a[x] # <<>> /\ a[x][1] \notin live THEN <<>>
        ELSE a[x]]

\* the n least recently used short ids
Oldest(l, n) == {l[i] : i \in 1..n}

\* the cache together with its history, threaded through the calls that
\* one operation makes; ev collects the short ids evicted on the way
Here == [c |-> cache, l |-> lru, a |-> assigned, ev |-> {}]

AssignStep(st, entry_id) ==
    LET short == AssignRet(st.c, entry_id)
        after == AssignCache(st.c, entry_id)
    IN  [c |-> after,
         l |-> Touch(st.l, short, Keys(after)),
         a |-> Remember(st.a, entry_id, short, Keys(after)),
         ev |-> st.ev \cup (Keys(st.c) \ Keys(AfterEvict(st.c, short)))]

ResolveStep(st, id_str) ==
    [c |-> ResolveCache(st.c, id_str),
     l |-> IF ResolveHit(st.c, id_str)
           THEN Touch(st.l, id_str, Keys(st.c)) ELSE st.l,
     a |-> st.a,
     ev |-> st.ev]

Becomes(st) ==
    /\ cache' = st.c
    /\ lru' = st.l
    /\ assigned' = st.a
    /\ UNCHANGED <<thread, before>>

NoCall == [name |-> "none", arg |-> "", ret |-> "", evicted |-> {}]

\* the callers that may run a cache function at the same time
Threads == {1, 2}

\* a caller outside _assign_short_id and _resolve_id
IdleThread ==
    [pc |-> "idle", fn |-> "", arg |-> "", short |-> "", suffix |-> 0,
     n |-> 0, ret |-> ""]

Init ==
    /\ cache = <<>>
    /\ lru = <<>>
    /\ assigned = [r \in Refs |-> <<>>]
    /\ op = NoCall
    /\ thread = [t \in Threads |-> IdleThread]
    /\ before = [c |-> <<>>, round |-> 0]

(***************************************************************************)
(* Calls of the cache functions                                            *)
(***************************************************************************)
AssignShortId(entry_id) ==
    LET st == AssignStep(Here, entry_id)
    IN  /\ Becomes(st)
        /\ op' = [name |-> "assign", arg |-> entry_id,
                  ret |-> AssignRet(cache, entry_id), evicted |-> st.ev]

\* strings a caller may pass that are never short ids of the cache
Unknown == {"zzzz", Eid1}

ResolveId(id_str) ==
    /\ Becomes(ResolveStep(Here, id_str))
    /\ op' = [name |-> "resolve", arg |-> id_str,
              ret |-> ResolveRet(cache, id_str), evicted |-> {}]

Next ==
    \/ \E entry_id \in EntryIds : AssignShortId(entry_id)
    \/ \E id_str \in Keys(cache) \cup Unknown : ResolveId(id_str)

Spec == Init /\ [][Next]_vars

(***************************************************************************)
(* The cache functions run by two callers at once.  Nothing in server.py   *)
(* locks _id_cache, so a caller can be interrupted between any two         *)
(* operations on the dict; each step below is one such operation together  *)
(* with the local statements that follow it.  thread[t] holds the locals   *)
(* of caller t, before.c the cache when the first caller of a round began, *)
(* before.round the number of rounds begun.  A KeyError that a dict        *)
(* operation raises ends the call with ret "KeyError".                     *)
(***************************************************************************)
MaxRounds == 3

Goto(t, pc) == thread' = [thread EXCEPT ![t].pc = pc]

Raise(t) == thread' = [thread EXCEPT ![t].pc = "done", ![t].ret = "KeyError"]

Quiet == \A t \in Threads : thread[t].pc = "idle"

\* caller t enters fn(arg); line 187 for _assign_short_id
Call(t, fn, arg) ==
    /\ thread[t].pc = "idle"
    /\ IF Quiet
       THEN /\ before.round < MaxRounds
            /\ before' = [c |-> cache, round |-> before.round + 1]
       ELSE UNCHANGED before
    /\ thread' = [thread EXCEPT ![t] =
           [IdleThread EXCEPT !.pc = IF fn = "assign" THEN "get" ELSE "rget",
                              !.fn = fn, !.arg = arg,
                              !.short = IF fn = "assign" THEN _hash_id(arg) ELSE ""]]
    /\ UNCHANGED <<cache, lru, assigned, op>>

\* lines 189-190
AssignGet(t) ==
    /\ thread[t].pc = "get"
    /\ IF Truthy(cache, thread[t].short) /\ Get(cache, thread[t].short) # thread[t].arg
       THEN thread' = [thread EXCEPT ![t].pc = "probe", ![t].suffix = 1]
       ELSE Goto(t, "contains")
    /\ UNCHANGED <<cache, lru, assigned, op, before>>

\* lines 191-196: one pass of the loop
AssignProbe(t) ==
    /\ thread[t].pc = "probe"
    /\ IF thread[t].suffix >= SUFFIX_END
       THEN thread' = [thread EXCEPT ![t].pc = "contains", ![t].suffix = 0]
       ELSE LET candidate == thread[t].short \o ToString(thread[t].suffix)
            IN  IF ~Truthy(cache, candidate) \/ Get(cache, candidate) = thread[t].arg
                THEN thread' = [thread EXCEPT ![t].pc = "contains",
                                              ![t].short = candidate,
                                              ![t].suffix = 0]
                ELSE thread' = [thread EXCEPT ![t].suffix = @ + 1]
    /\ UNCHANGED <<cache, lru, assigned, op, before>>

\* line 198: short not in _id_cache
AssignContains(t) ==
    /\ thread[t].pc = "contains"
    /\ IF Has(cache, thread[t].short) THEN Goto(t, "set") ELSE Goto(t, "len")
    /\ UNCHANGED <<cache, lru, assigned, op, before>>

\* line 198: len(_id_cache) >= MAX_CACHE_SIZE
AssignLen(t) ==
    /\ thread[t].pc = "len"
    /\ IF Len(cache) >= MAX_CACHE_SIZE THEN Goto(t, "range") ELSE Goto(t, "set")
    /\ UNCHANGED <<cache, lru, assigned, op, before>>

\* line 199: range(len(_id_cache) // 2)
AssignRange(t) ==
    /\ thread[t].pc = "range"
    /\ IF Len(cache) \div 2 > 0
       THEN thread' = [thread EXCEPT ![t].pc = "pop", ![t].n = Len(cache) \div 2]
       ELSE Goto(t, "set")
    /\ UNCHANGED <<cache, lru, assigned, op, before>>

\* line 200: one popitem(last=False)
AssignPop(t) ==
    /\ thread[t].pc = "pop"
    /\ IF cache = <<>>
       THEN Raise(t) /\ UNCHANGED cache
       ELSE /\ cache' = Tail(cache)
            /\ thread' = [thread EXCEPT ![t].n = @ - 1,
                                        ![t].pc = IF thread[t].n = 1 THEN "set" ELSE "pop"]
    /\ UNCHANGED <<lru, assigned, op, before>>

\* line 202
AssignSet(t) ==
    /\ thread[t].pc = "set"
    /\ cache' = SetItem(cache, thread[t].short, thread[t].arg)
    /\ Goto(t, "move")
    /\ UNCHANGED <<lru, assigned, op, before>>

\* lines 203-204
AssignMove(t) ==
    /\ thread[t].pc = "move"
    /\ IF Has(cache, thread[t].short)
       THEN /\ cache' = MoveToEnd(cache, thread[t].short)
            /\ thread' = [thread EXCEPT ![t].pc = "done", ![t].ret = thread[t].short]
       ELSE Raise(t) /\ UNCHANGED cache
    /\ UNCHANGED <<lru, assigned, op, before>>

\* lines 209-210 and 213; real_id is kept in short
ResolveGet(t) ==
    /\ thread[t].pc = "rget"
    /\ IF ResolveHit(cache, thread[t].arg)
       THEN thread' = [thread EXCEPT ![t].pc = "rmove",
                                     ![t].short = Get(cache, thread[t].arg)]
       ELSE thread' = [thread EXCEPT ![t].pc = "done", ![t].ret = thread[t].arg]
    /\ UNCHANGED <<cache, lru, assigned, op, before>>

\* lines 211-212
ResolveMove(t) ==
    /\ thread[t].pc = "rmove"
    /\ IF Has(cache, thread[t].arg)
       THEN /\ cache' = MoveToEnd(cache, thread[t].arg)
            /\ thread' = [thread EXCEPT ![t].pc = "done", ![t].ret = thread[t].short,
                                        ![t].short = ""]
       ELSE Raise(t) /\ UNCHANGED cache
    /\ UNCHANGED <<lru, assigned, op, before>>

\* both calls have returned: the callers are ready for their next calls
Return ==
    /\ \A t \in Threads : thread[t].pc = "done"
    /\ thread' = [t \in Threads |-> IdleThread]
    /\ UNCHANGED <<cache, lru, assigned, op, before>>

ConcRefs == {EidA, EidB, Eid1, Eid2, Eid4}

ConcNext ==
    \/ \E t \in Threads, entry_id \in ConcRefs : Call(t, "assign", entry_id)
    \/ \E t \in Threads, id_str \in Keys(cache) : Call(t, "resolve", id_str)
    \/ \E t \in Threads : AssignGet(t)
    \/ \E t \in Threads : AssignProbe(t)
    \/ \E t \in Threads : AssignContains(t)
    \/ \E t \in Threads : AssignLen(t)
    \/ \E t \in Threads : AssignRange(t)
    \/ \E t \in Threads : AssignPop(t)
    \/ \E t \in Threads : AssignSet(t)
    \/ \E t \in Threads : AssignMove(t)
    \/ \E t \in Threads : ResolveGet(t)
    \/ \E t \in Threads : ResolveMove(t)
    \/ Return

ConcSpec == Init /\ [][ConcNext]_vars

(***************************************************************************)
(* The store behind the COM namespace: the items GetItemFromID finds       *)
(***************************************************************************)
MailIds == {Eid1, Eid2, EidA, EidB}

CalendarIds == {EidC, Eid3}

\* namespace.GetItemFromID(real_id): the MessageClass of the item, or
\* "error" when the store has no such item and the COM call raises
GetItemFromID(real_id) ==
    IF real_id \in MailIds THEN "IPM.Note"
    ELSE IF real_id \in CalendarIds THEN "IPM.Appointment"
    ELSE "error"

(***************************************************************************)
(* read_item.  full_body only selects the truncation of the body text,     *)
(* which is not part of the state.                                         *)
(***************************************************************************)
ReadItemRet(real_id) ==
    LET msg_class == GetItemFromID(real_id)
    IN  IF msg_class = "error" THEN [kind |-> "error", id |-> real_id]
        ELSE IF msg_class = "IPM.Appointment"
        THEN [kind |-> "calendar", id |-> real_id]
        ELSE [kind |-> "mail", id |-> real_id]

ReadItem(entry_id) ==
    LET real_id == ResolveRet(cache, entry_id)
    IN  /\ Becomes(ResolveStep(Here, entry_id))
        /\ op' = [name |-> "read_item", arg |-> entry_id,
                  ret |-> ReadItemRet(real_id), evicted |-> {},
                  calls |-> <<"GetNamespace", "GetItemFromID">>,
                  asked |-> real_id]

(***************************************************************************)
(* String helpers                                                          *)
(***************************************************************************)
CharAt(s, i) == SubSeq(s, i, i)

StartsWithAt(s, i, prefix) ==
    /\ i + Len(prefix) - 1 <= Len(s)
    /\ SubSeq(s, i, i + Len(prefix) - 1) = prefix

StartsWith(s, prefix) == StartsWithAt(s, 1, prefix)

Contains(s, sub) == \E i \in 1..(Len(s) + 1) : StartsWithAt(s, i, sub)

IsSpace(ch) == ch \in {" ", "\n", "\t"}

IsUrl(s) == StartsWith(s, "http://") \/ StartsWith(s, "https://")

(***************************************************************************)
(* _shorten_urls (section 4.3 of the specification)                        *)
(***************************************************************************)
URL_THRESHOLD == 80

TrailingPunct == {")", ".", ",", ";", ":", "!", "?", "'", "\""}

\* the index after the run of non-whitespace characters that starts at i
RECURSIVE RunEnd(_, _)
RunEnd(text, i) ==
    IF i > Len(text) \/ IsSpace(CharAt(text, i)) THEN i
    ELSE RunEnd(text, i + 1)

\* a URL starts at i: http:// or https:// followed by a non-whitespace
UrlAt(text, i) ==
    \/ StartsWithAt(text, i, "http://") /\ RunEnd(text, i + 7) > i + 7
    \/ StartsWithAt(text, i, "https://") /\ RunEnd(text, i + 8) > i + 8

\* the length of url without its trailing punctuation
RECURSIVE CleanLen(_, _)
CleanLen(url, n) ==
    IF n > 0 /\ CharAt(url, n) \in TrailingPunct THEN CleanLen(url, n - 1)
    ELSE n

\* the scan from index i: r.st the cache, r.out the text produced so far,
\* r.urls one record for each URL found
RECURSIVE ShortenFrom(_, _, _)
ShortenFrom(text, i, r) ==
    IF i > Len(text) THEN r
    ELSE IF ~UrlAt(text, i)
    THEN Bind([r EXCEPT !.out = @ \o CharAt(text, i)],
              LAMBDA n : ShortenFrom(text, i + 1, n))
    ELSE LET j     == RunEnd(text, i)
             match == SubSeq(text, i, j - 1)
             n     == CleanLen(match, Len(match))
             url   == SubSeq(match, 1, n)
             tail  == SubSeq(match, n + 1, Len(match))
             token == AssignRet(r.st.c, url)
         IN  IF Len(url) <= URL_THRESHOLD
             THEN Bind([r EXCEPT !.out = @ \o match,
                                 !.urls = Append(@, [url |-> url, tail |-> tail,
                                                     token |-> "", held |-> TRUE])],
                       LAMBDA nxt : ShortenFrom(text, j, nxt))
             ELSE Bind(AssignStep(r.st, url),
                       LAMBDA st : ShortenFrom(text, j,
                         [st |-> st,
                          out |-> r.out \o "[url:" \o token \o "]" \o tail,
                          urls |-> Append(r.urls,
                              [url |-> url, tail |-> tail, token |-> token,
                               held |-> Has(st.c, token) /\ Get(st.c, token) = url])]))

ShortenRun(st, text) == ShortenFrom(text, 1, [st |-> st, out |-> "", urls |-> <<>>])

Texts ==
    { "no link here",
      "Check " \o UrlShort \o ", ok",
      "See " \o UrlLong \o ".",
      Url80 \o " (" \o Url81 \o ").",
      "a " \o UrlLong \o ", " \o Url81 \o "!" }

ShortenUrls(text) ==
    \E r \in {ShortenRun(Here, text)} :
        /\ Becomes(r.st)
        /\ op' = [name |-> "shorten", arg |-> text, ret |-> r.out,
                  evicted |-> r.st.ev, urls |-> r.urls]

(***************************************************************************)
(* Dates.  A time is the number of minutes since the start of day 0 of     *)
(* the proleptic Gregorian calendar (ordinal * 1440 + minute of the day).  *)
(***************************************************************************)
IsDigit(ch) == ch \in {"0", "1", "2", "3", "4", "5", "6", "7", "8", "9"}

DigitVal(ch) == CHOOSE d \in 0..9 : ToString(d) = ch

RECURSIVE ToInt(_)
ToInt(s) ==
    IF s = "" THEN 0
    ELSE 10 * ToInt(SubSeq(s, 1, Len(s) - 1)) + DigitVal(CharAt(s, Len(s)))

IsLeap(y) == (y % 4 = 0) /\ ((y % 100 # 0) \/ (y % 400 = 0))

DaysInMonth(y, m) ==
    IF m = 2 THEN (IF IsLeap(y) THEN 29 ELSE 28)
    ELSE IF m \in {4, 6, 9, 11} THEN 30 ELSE 31

RECURSIVE DaysBeforeMonth(_, _)
DaysBeforeMonth(y, m) ==
    IF m = 1 THEN 0 ELSE DaysBeforeMonth(y, m - 1) + DaysInMonth(y, m - 1)

Ordinal(y, m, d) ==
    LET p == y - 1
    IN  p * 365 + (p \div 4) - (p \div 100) + (p \div 400)
        + DaysBeforeMonth(y, m) + d

\* datetime.strptime(s, "%Y-%m-%d") succeeds (for zero-padded input)
IsDate(s) ==
    /\ Len(s) = 10
    /\ CharAt(s, 5) = "-" /\ CharAt(s, 8) = "-"
    /\ \A i \in {1, 2, 3, 4, 6, 7, 9, 10} : IsDigit(CharAt(s, i))
    /\ LET y == ToInt(SubSeq(s, 1, 4))
           m == ToInt(SubSeq(s, 6, 7))
           d == ToInt(SubSeq(s, 9, 10))
       IN  y >= 1 /\ m \in 1..12 /\ d \in 1..DaysInMonth(y, m)

\* midnight of the date datetime.strptime(s, "%Y-%m-%d") gives
Midnight(s) ==
    Ordinal(ToInt(SubSeq(s, 1, 4)), ToInt(SubSeq(s, 6, 7)),
            ToInt(SubSeq(s, 9, 10))) * 1440

\* + timedelta(days=1)
NextDay(t) == t + 1440

At(s, hour, minute) == Midnight(s) + hour * 60 + minute

\* datetime.strptime(s, "%Y-%m-%d"): the datetime at 00:00 of that date
Strptime(s) ==
    [year  |-> ToInt(SubSeq(s, 1, 4)),
     month |-> ToInt(SubSeq(s, 6, 7)),
     day   |-> ToInt(SubSeq(s, 9, 10))]

\* variant: the end date without the added day
PlusOneDay_none(dt) == dt

\* dt + timedelta(days=1)
PlusOneDay(dt) ==
    IF dt.day < DaysInMonth(dt.year, dt.month)
    THEN [dt EXCEPT !.day = @ + 1]
    ELSE IF dt.month < 12
    THEN [year |-> dt.year, month |-> dt.month + 1, day |-> 1]
    ELSE [year |-> dt.year + 1, month |-> 1, day |-> 1]

\* the decimal digits of n, zero-padded to width
RECURSIVE Pad(_, _)
Pad(n, width) ==
    IF Len(ToString(n)) >= width THEN ToString(n)
    ELSE "0" \o Pad(n, width - 1)

\* dt.strftime('%m/%d/%Y 00:00')
Strftime(dt) ==
    Pad(dt.month, 2) \o "/" \o Pad(dt.day, 2) \o "/" \o Pad(dt.year, 4) \o " 00:00"

\* the time the store reads from a literal 'MM/DD/YYYY HH:MM'
StoreTime(lit) ==
    Ordinal(ToInt(SubSeq(lit, 7, 10)), ToInt(SubSeq(lit, 1, 2)),
            ToInt(SubSeq(lit, 4, 5))) * 1440
    + ToInt(SubSeq(lit, 12, 13)) * 60 + ToInt(SubSeq(lit, 15, 16))

\* the place of the first occurrence of sub in s, 0 when there is none
Find(s, sub) ==
    IF \E i \in 1..Len(s) : StartsWithAt(s, i, sub)
    THEN CHOOSE i \in 1..Len(s) :
             /\ StartsWithAt(s, i, sub)
             /\ \A j \in 1..(i - 1) : ~StartsWithAt(s, j, sub)
    ELSE 0

\* the 16 characters of the date literal that follows prefix in s
LiteralAfter(s, prefix) ==
    LET i == Find(s, prefix) + Len(prefix)
    IN  SubSeq(s, i, i + 15)

\* the store's evaluation on a time t of the two date comparisons of a
\* filter: prop >= 'literal' and prop < 'literal', each when present
Satisfies(t, filter_str, prop) ==
    /\ Find(filter_str, prop \o " >= '") # 0
         => t >= StoreTime(LiteralAfter(filter_str, prop \o " >= '"))
    /\ Find(filter_str, prop \o " < '") # 0
         => t < StoreTime(LiteralAfter(filter_str, prop \o " < '"))

(***************************************************************************)
(* The mail folders of the store: rows as GetTable gives them.  An         *)
(* EntryID of "" is a row whose EntryID column is empty.                   *)
(***************************************************************************)
FOLDER_MAP == {"inbox", "sent", "drafts", "deleted", "junk"}

InboxRows ==
    { [EntryID |-> Eid1, SentOn |-> At("2025-01-01", 9, 0), MessageClass |-> "IPM.Note"],
      [EntryID |-> EMPTY, SentOn |-> At("2025-01-15", 10, 0), MessageClass |-> "IPM.Note"],
      [EntryID |-> "EID00000M1", SentOn |-> At("2025-01-20", 8, 0),
       MessageClass |-> "IPM.Schedule.Meeting.Request"],
      [EntryID |-> Eid2, SentOn |-> At("2025-01-31", 23, 59), MessageClass |-> "IPM.Note"] }

ArchiveInboxRows ==
    { [EntryID |-> EidB, SentOn |-> At("2024-02-29", 0, 0), MessageClass |-> "IPM.Note"],
      [EntryID |-> EidA, SentOn |-> At("2024-12-31", 23, 59), MessageClass |-> "IPM.Note"],
      [EntryID |-> Eid4, SentOn |-> At("2025-01-10", 12, 0), MessageClass |-> "IPM.Note"] }

\* namespace.GetDefaultFolder(FOLDER_MAP[fname]) of the primary mailbox
PrimaryRows(fname) == IF fname = "inbox" THEN InboxRows ELSE {}

\* _find_archive_folder: the folder of the Online Archive store whose Name
\* is the mapped name, or the given name itself when it is not mapped
ArchiveFolderNames == {"Inbox"}

ArchiveTarget(fname) ==
    CASE fname = "inbox"   -> "Inbox"
      [] fname = "sent"    -> "Sent Items"
      [] fname = "drafts"  -> "Drafts"
      [] fname = "deleted" -> "Deleted Items"
      [] fname = "junk"    -> "Junk Email"
      [] OTHER             -> fname

ArchiveFound(fname) == ArchiveTarget(fname) \in ArchiveFolderNames

ArchiveRows(fname) ==
    IF ArchiveTarget(fname) = "Inbox" THEN ArchiveInboxRows ELSE {}

\* str.lower()
UpperChars == "ABCDEFGHIJKLMNOPQRSTUVWXYZ"

LowerChars == "abcdefghijklmnopqrstuvwxyz"

LowerChar(ch) ==
    IF \E i \in 1..26 : CharAt(UpperChars, i) = ch
    THEN CharAt(LowerChars, CHOOSE i \in 1..26 : CharAt(UpperChars, i) = ch)
    ELSE ch

RECURSIVE Lower(_)
Lower(s) ==
    IF s = "" THEN ""
    ELSE LowerChar(CharAt(s, 1)) \o Lower(SubSeq(s, 2, Len(s)))

(***************************************************************************)
(* _build_dasl_filter.  is_read is "None", "True" or "False".              *)
(***************************************************************************)
\* s.replace("'", "''")
RECURSIVE EscapeQuotes(_)
EscapeQuotes(s) ==
    IF s = "" THEN ""
    ELSE (IF CharAt(s, 1) = "'" THEN "''" ELSE CharAt(s, 1))
         \o EscapeQuotes(SubSeq(s, 2, Len(s)))

\* s.split(): the maximal runs of non-whitespace characters from index i;
\* word is the run being read
RECURSIVE SplitFrom(_, _, _)
SplitFrom(s, i, word) ==
    IF i > Len(s) THEN (IF word = "" THEN <<>> ELSE <<word>>)
    ELSE IF IsSpace(CharAt(s, i))
    THEN (IF word = "" THEN <<>> ELSE <<word>>) \o SplitFrom(s, i + 1, "")
    ELSE SplitFrom(s, i + 1, word \o CharAt(s, i))

Split(s) == SplitFrom(s, 1, "")

\* sep.join(parts)
RECURSIVE Join(_, _)
Join(parts, sep) ==
    IF parts = <<>> THEN ""
    ELSE IF Len(parts) = 1 THEN parts[1]
    ELSE parts[1] \o sep \o Join(Tail(parts), sep)

DateProp == "\"urn:schemas:httpmail:date\""

\* lines 232-235
DateFromPart(date_from) ==
    IF date_from # ""
    THEN << DateProp \o " >= '" \o Strftime(Strptime(date_from)) \o "'" >>
    ELSE <<>>

\* lines 236-239
DateToPart(date_to) ==
    IF date_to # ""
    THEN << DateProp \o " < '" \o Strftime(PlusOneDay(Strptime(date_to))) \o "'" >>
    ELSE <<>>

\* lines 241-245
QueryPart(query) ==
    IF query # ""
    THEN LET safe == EscapeQuotes(query)
         IN  << "(\"urn:schemas:httpmail:subject\" ci_phrasematch '" \o safe \o "' "
                \o "OR \"urn:schemas:httpmail:textdescription\" ci_phrasematch '"
                \o safe \o "')" >>
    ELSE <<>>

\* the comprehension [f"{prop} LIKE '%{w}%'" for w in words]
LikeParts(prop, words) ==
    [i \in DOMAIN words |-> prop \o " LIKE '%" \o words[i] \o "%'"]

\* lines 247-258
SenderPart(sender) ==
    IF sender # ""
    THEN LET words == Split(EscapeQuotes(sender))
         IN  IF Len(words) = 1
             THEN << "(\"urn:schemas:httpmail:sendername\" LIKE '%" \o words[1] \o "%' "
                     \o "OR \"urn:schemas:httpmail:fromemail\" LIKE '%" \o words[1]
                     \o "%')" >>
             ELSE << "(" \o Join(LikeParts("\"urn:schemas:httpmail:sendername\"", words),
                                 " AND ") \o ")" >>
    ELSE <<>>

\* lines 260-264
ToPart(to) ==
    IF to # ""
    THEN << "(" \o Join(LikeParts("\"urn:schemas:httpmail:displayto\"",
                                  Split(EscapeQuotes(to))), " AND ") \o ")" >>
    ELSE <<>>

\* lines 266-267
ReadPart(is_read) ==
    IF is_read # "None"
    THEN << "\"urn:schemas:httpmail:read\" = "
            \o (IF is_read = "True" THEN "1" ELSE "0") >>
    ELSE <<>>

\* the list 'parts' at line 269
FilterParts(query, date_from, date_to, sender, to, is_read) ==
    DateFromPart(date_from) \o DateToPart(date_to) \o QueryPart(query)
    \o SenderPart(sender) \o ToPart(to) \o ReadPart(is_read)

_build_dasl_filter(query, date_from, date_to, sender, to, is_read) ==
    LET parts == FilterParts(query, date_from, date_to, sender, to, is_read)
    IN  IF parts = <<>> THEN "" ELSE "@SQL=" \o Join(parts, " AND ")

\* folder.GetTable(filter_str) followed by table.Sort("SentOn", descending)
RECURSIVE SortRows(_, _)
SortRows(rows, descending) ==
    IF rows = {} THEN <<>>
    ELSE LET first == CHOOSE r \in rows : \A q \in rows :
                          IF descending THEN r.SentOn >= q.SentOn
                          ELSE r.SentOn <= q.SentOn
         IN  <<first>> \o SortRows(rows \ {first}, descending)

GetTable(rows, filter_str, descending) ==
    SortRows({r \in rows : Satisfies(r.SentOn, filter_str, DateProp)}, descending)

(***************************************************************************)
(* _search_folder                                                          *)
(***************************************************************************)
\* the loop over the table from row i: r.st the cache, r.results the
\* summaries of the caller with those of this folder appended, of which
\* the first 'base' are the caller's
RECURSIVE SearchLoop(_, _, _, _, _)
SearchLoop(table, i, max_results, base, r) ==
    IF i > Len(table) \/ Len(r.results) - base >= max_results THEN r
    ELSE LET row == table[i]
         IN  IF row.MessageClass # "" /\ ~StartsWith(row.MessageClass, "IPM.Note")
             THEN SearchLoop(table, i + 1, max_results, base, r)
             ELSE Bind([st |-> AssignStep(r.st, row.EntryID),
                        results |-> Append(r.results,
                            [id |-> AssignRet(r.st.c, row.EntryID),
                             date |-> row.SentOn,
                             entry |-> row.EntryID]),
                        calls |-> r.calls],
                       LAMBDA n : SearchLoop(table, i + 1, max_results, base, n))

\* r.results and r.calls are extended by the search of one folder
\* (results.extend(_search_folder(...)) at the call sites)
_search_folder(rows, filter_str, max_results, earliest_first, r) ==
    IF max_results <= 0 THEN r
    ELSE Bind(GetTable(rows, filter_str, ~earliest_first),
              LAMBDA table : SearchLoop(table, 1, max_results, Len(r.results),
                  [r EXCEPT !.calls = @ \o <<"GetTable",
                      IF earliest_first THEN "Sort ascending" ELSE "Sort descending">>]))

\* results[:max_results]
Slice(results, n) ==
    IF n >= 0 THEN SubSeq(results, 1, IF n < Len(results) THEN n ELSE Len(results))
    ELSE SubSeq(results, 1, Len(results) + n)

ErrorRet(exc) == [kind |-> "error", exc |-> exc]

OkRet(results, max_results) ==
    [kind |-> "ok", count |-> Len(results), max_results |-> max_results,
     results |-> results]

(***************************************************************************)
(* search_emails (query, sender, to at "", is_read at None)                *)
(***************************************************************************)
\* the archive search of lines 533-541 and 553-562
ArchivePart(fname, filter_str, max_results, earliest_first, r) ==
    IF ArchiveFound(fname)
    THEN _search_folder(ArchiveRows(fname), filter_str, max_results, earliest_first,
                        [r EXCEPT !.calls = @ \o <<"Stores">>])
    ELSE [r EXCEPT !.calls = @ \o <<"Stores">>]

\* the primary search of lines 544-550; the ValueError of
\* _get_default_folder for an unknown name is caught by 'except Exception'
PrimaryPart(fname, filter_str, max_results, earliest_first, r) ==
    IF fname \notin FOLDER_MAP THEN r
    ELSE _search_folder(PrimaryRows(fname), filter_str, max_results, earliest_first,
                        [r EXCEPT !.calls = @ \o <<"GetDefaultFolder">>])

\* lines 533-541, 544-550 and 553-562, one after the other
ArchiveFirst(q) == q.include_archive /\ q.earliest_first

Stage1(q, filter_str, r) ==
    IF ArchiveFirst(q)
    THEN ArchivePart(Lower(q.folder), filter_str, q.max_results, q.earliest_first, r)
    ELSE r

Stage2(q, filter_str, r) ==
    IF Len(r.results) < q.max_results
    THEN PrimaryPart(Lower(q.folder), filter_str,
                     q.max_results - Len(r.results), q.earliest_first, r)
    ELSE r

Stage3(q, filter_str, r) ==
    IF q.include_archive /\ ~ArchiveFirst(q) /\ Len(r.results) < q.max_results
    THEN ArchivePart(Lower(q.folder), filter_str,
                     q.max_results - Len(r.results), q.earliest_first, r)
    ELSE r

\* line 527, with the arguments the requests leave at their defaults
FilterOf(q) == _build_dasl_filter("", q.date_from, q.date_to, "", "", "None")

SearchEmailsRun(st, q) ==
    Bind(FilterOf(q),
      LAMBDA filter_str :
        Bind([st |-> st, results |-> <<>>, calls |-> <<"GetNamespace">>],
          LAMBDA r0 : Bind(Stage1(q, filter_str, r0),
            LAMBDA r1 : Bind(Stage2(q, filter_str, r1),
              LAMBDA r2 : Bind(Stage3(q, filter_str, r2),
                LAMBDA r3 : [r3 EXCEPT !.results = Slice(@, q.max_results)])))))

\* variant: the check reads the two arguments the other way round
DateToWithoutFrom_swapped(q) == q.date_from # "" /\ q.date_to = ""

\* 'if date_to and not date_from' (lines 520 and 589)
DateToWithoutFrom(q) == q.date_to # "" /\ q.date_from = ""

DatesOk(q) ==
    /\ q.date_from = "" \/ IsDate(q.date_from)
    /\ q.date_to = "" \/ IsDate(q.date_to)

SearchEmails(q) ==
    IF DateToWithoutFrom(q)
    THEN /\ UNCHANGED <<cache, lru, assigned, thread, before>>
         /\ op' = [name |-> "search_emails", arg |-> q,
                   ret |-> ErrorRet("ValueError"), evicted |-> {}, calls |-> <<>>]
    ELSE IF ~DatesOk(q)
    THEN /\ UNCHANGED <<cache, lru, assigned, thread, before>>
         /\ op' = [name |-> "search_emails", arg |-> q,
                   ret |-> ErrorRet("ValueError"), evicted |-> {},
                   calls |-> <<"GetNamespace">>]
    ELSE \E r \in {SearchEmailsRun(Here, q)} :
             /\ Becomes(r.st)
             /\ op' = [name |-> "search_emails", arg |-> q,
                       ret |-> OkRet(r.results, q.max_results),
                       evicted |-> r.st.ev, calls |-> r.calls]

(***************************************************************************)
(* The calendar folder: the items Items.Restrict can give                  *)
(***************************************************************************)
RESPONSE_STATUS_MAP ==
    [i \in 0..5 |-> CASE i = 0 -> "none"
                      [] i = 1 -> "organized"
                      [] i = 2 -> "tentative"
                      [] i = 3 -> "accepted"
                      [] i = 4 -> "declined"
                      [] i = 5 -> "not_responded"]

\* the keys of _RESPONSE_LOOKUP
ResponseNames == {RESPONSE_STATUS_MAP[i] : i \in 0..5}

CalendarItems ==
    { [EntryID |-> EidC, Start |-> At("2025-01-01", 9, 0),
       ResponseStatus |-> 3, MeetingStatus |-> 1],
      [EntryID |-> "EID00000X5", Start |-> At("2025-01-10", 12, 0),
       ResponseStatus |-> 3, MeetingStatus |-> 5],
      [EntryID |-> Eid3, Start |-> At("2025-01-31", 14, 30),
       ResponseStatus |-> 2, MeetingStatus |-> 0] }

\* items.Sort("[Start]"): the items by Start, earliest first
RECURSIVE SortItems(_)
SortItems(items) ==
    IF items = {} THEN <<>>
    ELSE LET first == CHOOSE r \in items : \A q \in items : r.Start <= q.Start
         IN  <<first>> \o SortItems(items \ {first})

\* items.Restrict(restrict_str) on the sorted items: the store's evaluation
\* of the two [Start] comparisons and of the [MeetingStatus] conditions
Restrict(items, restrict_str) ==
    SortItems({i \in items :
        /\ Satisfies(i.Start, restrict_str, "[Start]")
        /\ Find(restrict_str, "[MeetingStatus] <> 5") # 0 => i.MeetingStatus # 5
        /\ Find(restrict_str, "[MeetingStatus] <> 7") # 0 => i.MeetingStatus # 7})

RECURSIVE Reverse(_)
Reverse(s) == IF s = <<>> THEN <<>> ELSE Reverse(Tail(s)) \o <<Head(s)>>

(***************************************************************************)
(* search_calendar (query at "")                                           *)
(***************************************************************************)
\* the loop 'while item and (not earliest_first or len(results) < max_results)'
\* from item i
RECURSIVE CalendarLoop(_, _, _, _)
CalendarLoop(items, i, q, r) ==
    IF i > Len(items) \/ ~(~q.earliest_first \/ Len(r.results) < q.max_results)
    THEN r
    ELSE LET item == items[i]
             resp == item.ResponseStatus
         IN  IF q.response # "" /\ RESPONSE_STATUS_MAP[resp] # Lower(q.response)
             THEN Bind([r EXCEPT !.calls = Append(@, "GetNext")],
                       LAMBDA n : CalendarLoop(items, i + 1, q, n))
             ELSE Bind([st |-> AssignStep(r.st, item.EntryID),
                        results |-> Append(r.results,
                            [id |-> AssignRet(r.st.c, item.EntryID),
                             date |-> item.Start,
                             response |-> RESPONSE_STATUS_MAP[resp],
                             entry |-> item.EntryID]),
                        restrict |-> r.restrict,
                        calls |-> Append(r.calls, "GetNext")],
                       LAMBDA n : CalendarLoop(items, i + 1, q, n))

\* lines 600-606: the range searched
StartDt(q) == Strptime(IF q.date_from = "" THEN q.today ELSE q.date_from)

EndDt(q) ==
    PlusOneDay(Strptime(IF q.date_to # "" THEN q.date_to
                        ELSE IF q.date_from = "" THEN q.today ELSE q.date_from))

\* lines 614-618
RestrictStr(q) ==
    "[Start] >= '" \o Strftime(StartDt(q)) \o "'"
    \o " AND [Start] < '" \o Strftime(EndDt(q)) \o "'"
    \o " AND [MeetingStatus] <> 5 AND [MeetingStatus] <> 7"

\* variant: the restriction applied before the recurrences are included
CalendarSetup_restrict_first ==
    <<"GetNamespace", "GetDefaultFolder", "Sort ascending", "Restrict",
      "IncludeRecurrences">>

\* the calls of lines 596-619, in the order of the statements
CalendarSetup ==
    <<"GetNamespace", "GetDefaultFolder", "Sort ascending", "IncludeRecurrences",
      "Restrict">>

\* lines 663-665: results.reverse() when not earliest_first, then
\* results[:max_results]
PostProcess(q, r) ==
    [r EXCEPT !.results = Slice(IF q.earliest_first THEN @ ELSE Reverse(@),
                                q.max_results),
              !.calls = @ \o (IF q.earliest_first THEN <<>> ELSE <<"reverse">>)
                          \o <<"slice">>]

SearchCalendarRun(st, q) ==
    Bind(RestrictStr(q),
      LAMBDA restrict_str : Bind(Restrict(CalendarItems, restrict_str),
        LAMBDA items : Bind(CalendarLoop(items, 1, q,
                 [st |-> st, results |-> <<>>, restrict |-> restrict_str,
                  calls |-> Append(CalendarSetup, "GetFirst")]),
          LAMBDA r : PostProcess(q, r))))

SearchCalendar(q) ==
    IF DateToWithoutFrom(q)
    THEN /\ UNCHANGED <<cache, lru, assigned, thread, before>>
         /\ op' = [name |-> "search_calendar", arg |-> q,
                   ret |-> ErrorRet("ValueError"), evicted |-> {}, calls |-> <<>>]
    ELSE IF q.response # "" /\ Lower(q.response) \notin ResponseNames
    THEN /\ UNCHANGED <<cache, lru, assigned, thread, before>>
         /\ op' = [name |-> "search_calendar", arg |-> q,
                   ret |-> ErrorRet("ValueError"), evicted |-> {}, calls |-> <<>>]
    ELSE IF ~DatesOk(q)
    THEN /\ UNCHANGED <<cache, lru, assigned, thread, before>>
         /\ op' = [name |-> "search_calendar", arg |-> q,
                   ret |-> ErrorRet("ValueError"), evicted |-> {},
                   calls |-> <<"GetNamespace", "GetDefaultFolder">>]
    ELSE \E r \in {SearchCalendarRun(Here, q)} :
             /\ Becomes(r.st)
             /\ op' = [name |-> "search_calendar", arg |-> q,
                       ret |-> OkRet(r.results, q.max_results),
                       evicted |-> r.st.ev, calls |-> r.calls,
                       restrict |-> r.restrict]

(***************************************************************************)
(* A call of _build_dasl_filter on its own                                 *)
(***************************************************************************)
BuildDaslFilter(a) ==
    /\ UNCHANGED <<cache, lru, assigned, thread, before>>
    /\ op' = [name |-> "filter", arg |-> a,
              ret |-> _build_dasl_filter(a.query, a.date_from, a.date_to,
                                         a.sender, a.to, a.is_read),
              evicted |-> {}]

(***************************************************************************)
(* Properties of the cache functions                                       *)
(***************************************************************************)
SameHash(r1, r2) == _hash_id(r1) = _hash_id(r2)

\* C1: Round-trip.  Right after _assign_short_id(r) returned a short id,
\* _resolve_id of that short id returns r, from every reachable cache state.
C1_RoundTrip ==
    op.name = "assign" => ResolveRet(cache, op.ret) = op.arg

\* an assign of a colliding reference that got a suffixed short id
C1_Witness ==
    /\ op.name = "assign"
    /\ op.arg = EidB
    /\ op.ret = "el4c1"
    /\ ResolveRet(cache, op.ret) = EidB

\* C2: Collision safety (the claim as stated).  Two consecutive
\* _assign_short_id calls for distinct references with the same hash, the
\* second without eviction, return distinct short ids, and afterwards each
\* short id resolves to its own reference.
C2_CollisionSafety ==
    [][ ( /\ op.name = "assign"
          /\ op'.name = "assign"
          /\ op.arg # op'.arg
          /\ SameHash(op.arg, op'.arg)
          /\ op'.evicted = {} )
        => ( /\ op.ret # op'.ret
             /\ ResolveRet(cache', op.ret) = op.arg
             /\ ResolveRet(cache', op'.ret) = op'.arg ) ]_vars

\* C3: Idempotent re-insertion (the claim as stated).  When reference r was
\* last assigned short id t and t is still a key of the cache,
\* _assign_short_id(r) returns t.
C3_IdempotentReinsert ==
    [][ ( /\ op'.name = "assign"
          /\ assigned[op'.arg] # <<>>
          /\ Has(cache, assigned[op'.arg][1]) )
        => op'.ret = assigned[op'.arg][1] ]_vars

\* C4: Bounded capacity (the claim as stated).  The cache never holds more
\* than MAX_CACHE_SIZE entries, and re-assigning a reference whose short id
\* is still cached evicts nothing and leaves the entry count unchanged.
C4_BoundedCapacity ==
    [][ /\ Len(cache') <= MAX_CACHE_SIZE
        /\ ( ( /\ op'.name = "assign"
               /\ assigned[op'.arg] # <<>>
               /\ Has(cache, assigned[op'.arg][1]) )
             => ( op'.evicted = {} /\ Len(cache') = Len(cache) ) ) ]_vars

\* C5: Eviction by recency.  When the cache holds n >= MAX_CACHE_SIZE
\* entries and _assign_short_id inserts a new short id, exactly n \div 2
\* entries go, they are the n \div 2 least recently used ones (by last
\* assign or successful resolve), all others stay, and the new entry is the
\* most recently used one afterwards.
C5_EvictionByRecency ==
    [][ ( /\ op'.name = "assign"
          /\ ~Has(cache, op'.ret)
          /\ Len(cache) >= MAX_CACHE_SIZE )
        => LET n == Len(cache)
           IN  /\ Keys(cache) \ Keys(cache') = Oldest(lru, n \div 2)
               /\ Cardinality(Keys(cache) \ Keys(cache')) = n \div 2
               /\ op'.evicted = Oldest(lru, n \div 2)
               /\ Keys(cache') = (Keys(cache) \ Oldest(lru, n \div 2)) \cup {op'.ret}
               /\ cache'[Len(cache')].k = op'.ret
               /\ lru'[Len(lru')] = op'.ret ]_vars

\* an assign that evicted, after a resolve had changed the recency order
C5_Witness ==
    /\ op.name = "assign"
    /\ op.evicted = {"4000"}
    /\ Keys(cache) = {"el4c", "mb2a", "el4c1"}
    /\ cache[1].k = "el4c"

\* C8: Resolve miss is a pure pass-through.  _resolve_id(s) for s that is
\* not a key of the cache returns s and leaves the cache, contents and
\* order, as it was.
C8_ResolveMissPassThrough ==
    [][ ( op'.name = "resolve" /\ ~Has(cache, op'.arg) )
        => ( op'.ret = op'.arg /\ cache' = cache ) ]_vars

\* a miss on a non-empty cache returned its argument
C8_Witness ==
    /\ op.name = "resolve"
    /\ ~Has(cache, op.arg)
    /\ op.ret = op.arg
    /\ Len(cache) = MAX_CACHE_SIZE

(***************************************************************************)
(* Redeeming and shortening URLs                                           *)
(***************************************************************************)
ReadInputs == Keys(cache) \cup {"url:" \o k : k \in Keys(cache)} \cup Unknown

InboxRequests ==
    { [folder |-> "inbox", date_from |-> "", date_to |-> "",
       include_archive |-> FALSE, earliest_first |-> e, max_results |-> 5] :
      e \in BOOLEAN }

UrlNext ==
    \/ \E entry_id \in ReadInputs : ReadItem(entry_id)
    \/ \E text \in Texts : ShortenUrls(text)
    \/ \E q \in InboxRequests : SearchEmails(q)

UrlSpec == Init /\ [][UrlNext]_vars

Untag(s) == SubSeq(s, 5, Len(s))

\* C6: URL redemption (the claim as stated).  read_item with "url:" + TOKEN,
\* TOKEN cached with an http(s) URL as its value, returns that URL as
\* result["url"] and never calls GetItemFromID.
C6_UrlRedemption ==
    ( /\ op.name = "read_item"
      /\ StartsWith(op.arg, "url:")
      /\ Has(cache, Untag(op.arg))
      /\ IsUrl(Get(cache, Untag(op.arg))) )
    => ( /\ op.ret.kind = "url"
         /\ op.ret.url = Get(cache, Untag(op.arg))
         /\ \A i \in DOMAIN op.calls : op.calls[i] # "GetItemFromID" )

\* the number of places of text where sub starts
Occurrences(text, sub) ==
    Cardinality({i \in 1..Len(text) : StartsWithAt(text, i, sub)})

DateRanges ==
    { [date_from |-> "", date_to |-> ""],
      [date_from |-> "", date_to |-> "2025-01-31"],
      [date_from |-> "2025-01-01", date_to |-> "2025-01-15"] }

EmailRequests ==
    { [folder |-> f, date_from |-> d.date_from, date_to |-> d.date_to,
       include_archive |-> a, earliest_first |-> FALSE, max_results |-> m] :
      f \in {"INBOX", "bogus"}, d \in DateRanges, a \in BOOLEAN, m \in {2, 5} }

CalendarRequests ==
    { [date_from |-> d.date_from, date_to |-> d.date_to, today |-> "2025-01-31",
       response |-> p, earliest_first |-> TRUE, max_results |-> 5] :
      d \in DateRanges, p \in {"", "Accepted", "bogus_status"} }

SearchNext ==
    \/ \E q \in EmailRequests : SearchEmails(q)
    \/ \E q \in CalendarRequests : SearchCalendar(q)

SearchSpec == Init /\ [][SearchNext]_vars

IsSearch(o) == o.name \in {"search_emails", "search_calendar"}

\* C9: a search_emails or search_calendar request with date_to set and
\* date_from empty ends in an error, without any store access and with the
\* cache as it was before the call.
C9_DateToNeedsDateFrom ==
    [][ ( /\ IsSearch(op')
          /\ op'.arg.date_to # ""
          /\ op'.arg.date_from = "" )
        => ( /\ op'.ret.kind = "error"
             /\ op'.calls = <<>>
             /\ cache' = cache ) ]_vars

\* a rejected search_emails request on a full cache
C9_Witness ==
    /\ op.name = "search_emails"
    /\ op.arg.date_to = "2025-01-31"
    /\ op.arg.date_from = ""
    /\ op.ret.kind = "error"
    /\ Len(cache) = MAX_CACHE_SIZE

\* C10: unknown enum values (the claim as stated).  search_calendar with a
\* response outside the six names and search_emails with a folder outside
\* the five names both end in an error, never in a result dict.
C10_UnknownEnumRejected ==
    /\ ( /\ op.name = "search_calendar"
         /\ op.arg.response # ""
         /\ Lower(op.arg.response) \notin ResponseNames )
       => op.ret.kind = "error"
    /\ ( /\ op.name = "search_emails"
         /\ Lower(op.arg.folder) \notin FOLDER_MAP )
       => op.ret.kind = "error"

(***************************************************************************)
(* The filter strings                                                      *)
(***************************************************************************)
\* dates at the ends of months and years, and a leap day
Dates ==
    { "2024-02-28", "2024-02-29", "2024-12-31", "2025-01-01", "2025-01-31",
      "2025-11-30" }

FilterArgs ==
    { [query |-> "", date_from |-> f, date_to |-> t, sender |-> "", to |-> "",
       is_read |-> "None"] : f \in Dates \cup {""}, t \in Dates \cup {""} }
    \cup
    { [query |-> y, date_from |-> "", date_to |-> "", sender |-> s, to |-> t,
       is_read |-> r] :
      y \in {"", "it's"}, s \in {"", " ", "Ann", "Ann  Lee", "O'Neil"},
      t \in {"", " \t", "Bob", "Bob Ray"}, r \in {"None", "True", "False"} }

RangeRequests ==
    { [date_from |-> f, date_to |-> t, today |-> "2025-01-31",
       response |-> "", earliest_first |-> TRUE, max_results |-> 5] :
      f \in {"", "2024-12-31", "2025-01-01", "2025-01-31"},
      t \in {"", "2024-12-31", "2025-01-01", "2025-01-31"} }

FilterNext ==
    \/ \E a \in FilterArgs : BuildDaslFilter(a)
    \/ \E q \in RangeRequests : SearchCalendar(q)

FilterSpec == Init /\ [][FilterNext]_vars

\* times around the midnights of the dates
SampleTimes ==
    UNION { { Midnight(d) - 1, Midnight(d), Midnight(d) + 720,
              Midnight(d) + 1439, Midnight(d) + 1440 } : d \in Dates }

\* midnight(d1) <= t < midnight(d2 + 1 day), in minutes
InRange(t, d1, d2) == Midnight(d1) <= t /\ t < Midnight(d2) + 1440

\* C11: Inclusive end date.  For dates d1 <= d2 the date conditions of
\* _build_dasl_filter(date_from = d1, date_to = d2), and the [Start]
\* conditions of the search_calendar restriction for the same range, hold
\* for a time t exactly when midnight(d1) <= t < midnight(d2 + 1 day).
C11_InclusiveEndDate ==
    /\ ( /\ op.name = "filter"
         /\ op.arg.date_from # ""
         /\ op.arg.date_to # ""
         /\ Midnight(op.arg.date_from) <= Midnight(op.arg.date_to) )
       => \A t \in SampleTimes :
              Satisfies(t, op.ret, DateProp)
                  <=> InRange(t, op.arg.date_from, op.arg.date_to)
    /\ ( op.name = "search_calendar" /\ op.ret.kind = "ok" )
       => LET d1 == IF op.arg.date_from = "" THEN op.arg.today ELSE op.arg.date_from
              d2 == IF op.arg.date_to = "" THEN d1 ELSE op.arg.date_to
          IN  Midnight(d1) <= Midnight(d2)
                => \A t \in SampleTimes :
                       Satisfies(t, op.restrict, "[Start]") <=> InRange(t, d1, d2)

\* the filter of the single day at the end of a year
C11_Witness ==
    /\ op.name = "filter"
    /\ op.arg.date_from = "2024-12-31"
    /\ op.arg.date_to = "2024-12-31"
    /\ op.ret = "@SQL=" \o DateProp \o " >= '12/31/2024 00:00' AND "
                \o DateProp \o " < '01/01/2025 00:00'"

IsBlank(s) == \A i \in 1..Len(s) : IsSpace(CharAt(s, i))

\* C18: No empty clause (the claim as stated).  No filter that
\* _build_dasl_filter returns has a clause "()", and with a sender and a to
\* of whitespace only and nothing else given the filter is the empty string.
C18_NoEmptyClause ==
    op.name = "filter"
    => /\ ~Contains(op.ret, "()")
       /\ ( /\ op.arg.query = ""
            /\ op.arg.date_from = ""
            /\ op.arg.date_to = ""
            /\ op.arg.is_read = "None"
            /\ IsBlank(op.arg.sender)
            /\ IsBlank(op.arg.to) )
          => op.ret = ""

(***************************************************************************)
(* The results of the searches                                             *)
(***************************************************************************)
CapValues == {-1, 0, 1, 6}

EmailCapRequests ==
    { [folder |-> "inbox", date_from |-> "", date_to |-> "",
       include_archive |-> a, earliest_first |-> e, max_results |-> m] :
      a \in BOOLEAN, e \in BOOLEAN, m \in CapValues }

CalendarCapRequests ==
    { [date_from |-> "2025-01-01", date_to |-> "2025-01-31", today |-> "2025-01-31",
       response |-> "", earliest_first |-> e, max_results |-> m] :
      e \in BOOLEAN, m \in CapValues }

ResultNext ==
    \/ \E q \in EmailCapRequests : SearchEmails(q)
    \/ \E q \in CalendarCapRequests : SearchCalendar(q)

ResultSpec == Init /\ [][ResultNext]_vars

CalendarOrderRequests ==
    { [date_from |-> d.date_from, date_to |-> d.date_to, today |-> "2025-01-31",
       response |-> p, earliest_first |-> e, max_results |-> m] :
      d \in { [date_from |-> "", date_to |-> ""],
              [date_from |-> "2025-01-01", date_to |-> "2025-01-15"],
              [date_from |-> "2025-01-01", date_to |-> "2025-01-31"] },
      p \in {"", "Accepted", "Tentative"}, e \in BOOLEAN, m \in CapValues }

CalendarNext == \E q \in CalendarOrderRequests : SearchCalendar(q)

CalendarSpec == Init /\ [][CalendarNext]_vars

\* the places of a call in a log
Positions(calls, name) == {i \in DOMAIN calls : calls[i] = name}

\* C12: Calendar call protocol.  Every search_calendar execution sorts
\* ascending, then includes the recurrences, then restricts, each once and
\* in this order; it never sorts descending; the iteration comes after the
\* restriction, and the reversal (exactly when earliest_first is false) and
\* the cut to max_results come after the whole iteration.
C12_CalendarCallOrder ==
    (op.name = "search_calendar" /\ op.ret.kind = "ok")
    => LET c    == op.calls
           sort == Positions(c, "Sort ascending")
           inc  == Positions(c, "IncludeRecurrences")
           res  == Positions(c, "Restrict")
           iter == Positions(c, "GetFirst") \cup Positions(c, "GetNext")
           post == Positions(c, "reverse") \cup Positions(c, "slice")
       IN  /\ Cardinality(sort) = 1
           /\ Cardinality(inc) = 1
           /\ Cardinality(res) = 1
           /\ \A i \in sort, j \in inc, k \in res : i < j /\ j < k
           /\ Positions(c, "Sort descending") = {}
           /\ \A i \in iter, k \in res : k < i
           /\ \A i \in post, j \in iter \cup res : j < i
           /\ Cardinality(Positions(c, "slice")) = 1
           /\ (Positions(c, "reverse") # {}) <=> ~op.arg.earliest_first

\* a latest-first search cut to the later of the two events it collected
C12_Witness ==
    /\ op.name = "search_calendar"
    /\ ~op.arg.earliest_first
    /\ op.arg.max_results = 1
    /\ op.ret.count = 1
    /\ op.ret.results[1].entry = Eid3
    /\ op.calls = <<"GetNamespace", "GetDefaultFolder", "Sort ascending",
                    "IncludeRecurrences", "Restrict", "GetFirst", "GetNext",
                    "GetNext", "reverse", "slice">>

\* C13: Result cap (the claim as stated).  Every result of search_emails
\* and search_calendar has count = len(results) and at most max_results
\* entries, none when max_results <= 0.
C13_ResultCap ==
    (IsSearch(op) /\ op.ret.kind = "ok")
    => /\ op.ret.count = Len(op.ret.results)
       /\ Len(op.ret.results)
            <= (IF op.arg.max_results > 0 THEN op.arg.max_results ELSE 0)

\* C14: Sort order of search_emails (the claim as stated).  The results
\* are in non-increasing order of the sent date when earliest_first is
\* false and in non-decreasing order when it is true, also with the Online
\* Archive included.
C14_SortOrder ==
    (op.name = "search_emails" /\ op.ret.kind = "ok")
    => \A i, j \in DOMAIN op.ret.results :
           i < j => IF op.arg.earliest_first
                    THEN op.ret.results[i].date <= op.ret.results[j].date
                    ELSE op.ret.results[i].date >= op.ret.results[j].date

\* C16: Tokens of one response stay redeemable (the claim as stated).
\* Right after a search returned, every id of its results resolves to the
\* reference of the item it was issued for.
C16_TokensRedeemable ==
    (IsSearch(op) /\ op.ret.kind = "ok")
    => \A i \in DOMAIN op.ret.results :
           ResolveRet(cache, op.ret.results[i].id) = op.ret.results[i].entry

(***************************************************************************)
(* Many references with one hash                                           *)
(***************************************************************************)
\* non-empty references with the same _hash_id, one more than the base id
\* and the suffixed ids can hold, and one reference with another hash
Colliding == {EidA, EidB, EidC, EidD}

CollideNext ==
    \/ \E entry_id \in Colliding \cup {Eid1} : AssignShortId(entry_id)
    \/ \E id_str \in Keys(cache) \cup {"zzzz"} : ResolveId(id_str)

CollideSpec == Init /\ [][CollideNext]_vars

\* C17: No silent remap (the claim as stated).  _assign_short_id(r) leaves
\* every short id that was cached with a value other than r either evicted
\* by the capacity rule or cached with the value it had.
C17_NoSilentRemap ==
    [][ op'.name = "assign"
        => \A i \in DOMAIN cache :
               cache[i].v # op'.arg
               => \/ cache[i].k \in op'.evicted
                  \/ /\ Has(cache', cache[i].k)
                     /\ Get(cache', cache[i].k) = cache[i].v ]_vars

(***************************************************************************)
(* Two callers at once                                                     *)
(***************************************************************************)
\* the whole operation of caller t applied to cache c in one step
Whole(c, t) ==
    IF thread[t].fn = "assign"
    THEN [c |-> AssignCache(c, thread[t].arg), ret |-> AssignRet(c, thread[t].arg)]
    ELSE [c |-> ResolveCache(c, thread[t].arg), ret |-> ResolveRet(c, thread[t].arg)]

\* the two calls gave what they give when first runs whole, then second
SerialOrder(first, second) ==
    LET one == Whole(before.c, first)
        two == Whole(one.c, second)
    IN  /\ thread[first].ret = one.ret
        /\ thread[second].ret = two.ret
        /\ cache = two.c

\* C15: Atomic cache operations under concurrency (the claim as stated).
\* When two callers have run _assign_short_id / _resolve_id at the same
\* time, the values returned and the cache are those of one of the two
\* serial orders of the whole operations.
C15_AtomicCacheOperations ==
    (\A t \in Threads : thread[t].pc = "done")
    => (SerialOrder(1, 2) \/ SerialOrder(2, 1))

====
